---- MODULE Spec2Model ----
(***************************************************************************)
(* Model of clientcomptage (src/clientcomptage.c): option parsing, the     *)
(* single database connection, the dispatch on the selected action and     *)
(* the SIGINT handler.                                                     *)
(*                                                                         *)
(* An argument is a sequence of one-character strings, so that getopt's    *)
(* character-by-character scan and strcmp's whole-string comparison are    *)
(* both modelled by what they do.  argv[0] is left out: argv here is       *)
(* argv[1..argc-1] of the C program.                                       *)
(***************************************************************************)
EXTENDS Integers, Sequences, FiniteSets, TLC

\* ------------------------------------------------------------------ bounds
MaxArgs == 2

\* --------------------------------------------------------- program values
NONE == 0
AJOUT == 1
JOURS == 2
MOIS == 3
SEMAINES == 4

EXIT_SUCCESS == 0
EXIT_FAILURE == 1

NULL == "NULL"

\* what a freshly malloc'ed char* / an unset char array may hold
GARBAGE_PTR == "GARBAGE"
GARBAGE_STR == <<"<garbage>">>

\* ------------------------------------------------------------- arguments
Flag(c) == <<"-", c>>
HELP_LONG == <<"-", "-", "h", "e", "l", "p">>
VERSION_LONG == <<"-", "-", "v", "e", "r", "s", "i", "o", "n">>
JOUR_LONG == <<"-", "-", "j", "o", "u", "r">>
MOIS_LONG == <<"-", "-", "m", "o", "i", "s">>
SEMAINES_LONG == <<"-", "-", "s", "e", "m", "a", "i", "n", "e", "s">>
DASHDASH == <<"-", "-">>
PAYLOAD == <<"p">>

Tokens ==
  { Flag("a"), Flag("j"), Flag("m"), Flag("s"), Flag("v"), Flag("x"),
    Flag("?"), Flag("V"), HELP_LONG, VERSION_LONG, JOUR_LONG, MOIS_LONG,
    SEMAINES_LONG, DASHDASH, PAYLOAD }

ArgLists == UNION { [1..n -> Tokens] : n \in 0..MaxArgs }

\* ------------------------------------------------------------ struct options
\* contents of the struct right after pg_malloc: malloc does not initialise
UninitActions == NONE..(SEMAINES + 1)

UninitOpts ==
  [ script : {NULL, GARBAGE_PTR}, verbose : BOOLEAN,
    action : UninitActions, heures : {GARBAGE_STR} ]

\* the global pointer opts before main assigns it
Unallocated ==
  [ script |-> NULL, verbose |-> FALSE, action |-> NONE, heures |-> GARBAGE_STR ]

\* ------------------------------------------------------------------ get_opts
\* getopt(argc, argv, "a:jmsv")
OptString == {"a", "j", "m", "s", "v"}
OptsWithArg == {"a"}

\* the early test that forgets "-?"
IsHelp_LongOnly(tok) == tok = HELP_LONG

IsHelp(tok) == tok = HELP_LONG \/ tok = Flag("?")

IsVersion(tok) == tok = VERSION_LONG \/ tok = Flag("V")

\* get_opts whose default case falls out of the switch instead of exiting
SwitchCase_NoDefaultExit(c, o, optarg) ==
  CASE c = "a" -> [go |-> TRUE, opts |-> [o EXCEPT !.action = AJOUT, !.heures = optarg]]
    [] c = "j" -> [go |-> TRUE, opts |-> [o EXCEPT !.action = JOURS]]
    [] c = "m" -> [go |-> TRUE, opts |-> [o EXCEPT !.action = MOIS]]
    [] c = "s" -> [go |-> TRUE, opts |-> [o EXCEPT !.action = SEMAINES]]
    [] OTHER -> [go |-> TRUE, opts |-> o]

\* the switch (c) of get_opts; go = FALSE is the exit(EXIT_FAILURE) of default
SwitchCase(c, o, optarg) ==
  CASE c = "a" -> [go |-> TRUE, opts |-> [o EXCEPT !.action = AJOUT, !.heures = optarg]]
    [] c = "j" -> [go |-> TRUE, opts |-> [o EXCEPT !.action = JOURS]]
    [] c = "m" -> [go |-> TRUE, opts |-> [o EXCEPT !.action = MOIS]]
    [] c = "s" -> [go |-> TRUE, opts |-> [o EXCEPT !.action = SEMAINES]]
    [] OTHER -> [go |-> FALSE, opts |-> o]

Parsed(o) == [path |-> "parsed", status |-> EXIT_SUCCESS, opts |-> o]

UsageExit(o) == [path |-> "usage", status |-> EXIT_FAILURE, opts |-> o]

\* the while ((c = getopt(...)) != -1) loop.  i is optind, k the position of
\* getopt's nextchar inside argv[i] (0: between arguments).  perm tells
\* whether this getopt skips non-option arguments (GNU) or stops at the
\* first one (POSIX, src/port).
RECURSIVE GetoptLoop(_, _, _, _, _)
GetoptLoop(args, perm, i, k, o) ==
  IF k = 0
  THEN IF i > Len(args) THEN Parsed(o)
       ELSE LET tok == args[i] IN
            IF tok = DASHDASH THEN Parsed(o)
            ELSE IF Len(tok) < 2 \/ tok[1] # "-"
                 THEN IF perm THEN GetoptLoop(args, perm, i + 1, 0, o) ELSE Parsed(o)
                 ELSE GetoptLoop(args, perm, i, 2, o)
  ELSE LET tok == args[i]
           ch == tok[k]
           last == (k = Len(tok))
       IN  IF ch \notin OptString
           THEN \* getopt returns '?'
                LET r == SwitchCase("?", o, GARBAGE_STR) IN
                IF ~r.go THEN UsageExit(r.opts)
                ELSE IF last THEN GetoptLoop(args, perm, i + 1, 0, r.opts)
                     ELSE GetoptLoop(args, perm, i, k + 1, r.opts)
           ELSE IF ch \in OptsWithArg
           THEN IF ~last
                THEN LET r == SwitchCase(ch, o, SubSeq(tok, k + 1, Len(tok))) IN
                     IF ~r.go THEN UsageExit(r.opts)
                     ELSE GetoptLoop(args, perm, i + 1, 0, r.opts)
                ELSE IF i + 1 <= Len(args)
                THEN LET r == SwitchCase(ch, o, args[i + 1]) IN
                     IF ~r.go THEN UsageExit(r.opts)
                     ELSE GetoptLoop(args, perm, i + 2, 0, r.opts)
                ELSE \* missing argument: getopt returns '?'
                     LET r == SwitchCase("?", o, GARBAGE_STR) IN
                     IF ~r.go THEN UsageExit(r.opts)
                     ELSE GetoptLoop(args, perm, i + 1, 0, r.opts)
           ELSE LET r == SwitchCase(ch, o, GARBAGE_STR) IN
                IF ~r.go THEN UsageExit(r.opts)
                ELSE IF last THEN GetoptLoop(args, perm, i + 1, 0, r.opts)
                     ELSE GetoptLoop(args, perm, i, k + 1, r.opts)

\* the defaults set at the top of get_opts
SetDefaults(o) == [o EXCEPT !.script = NULL, !.verbose = FALSE]

\* get_opts as a function of the argument list and of the struct's contents
GetOptsResult(args, perm, o) ==
  LET d == SetDefaults(o) IN
  IF Len(args) >= 1 /\ IsHelp(args[1])
  THEN [path |-> "help", status |-> EXIT_SUCCESS, opts |-> d]
  ELSE IF Len(args) >= 1 /\ IsVersion(args[1])
  THEN [path |-> "version", status |-> EXIT_SUCCESS, opts |-> d]
  ELSE GetoptLoop(args, perm, 1, 0, d)

\* ------------------------------------------------------------------- libpq
\* what PQexec may hand back: no result at all, or a result with a status
Results ==
  { NULL, "PGRES_EMPTY_QUERY", "PGRES_COMMAND_OK", "PGRES_TUPLES_OK",
    "PGRES_COPY_OUT", "PGRES_BAD_RESPONSE", "PGRES_FATAL_ERROR" }

\* ExecStatusType, the value PQresultStatus returns
PQresultStatus(r) ==
  CASE r = "PGRES_EMPTY_QUERY" -> 0
    [] r = "PGRES_COMMAND_OK" -> 1
    [] r = "PGRES_TUPLES_OK" -> 2
    [] r = "PGRES_COPY_OUT" -> 3
    [] r = "PGRES_BAD_RESPONSE" -> 5
    [] r = "PGRES_FATAL_ERROR" -> 7

\* the error test of execute
ExecuteFailed(r) == r = NULL

\* the error test of fetch_table
FetchFailed(r) == r = NULL \/ PQresultStatus(r) > 2

\* -------------------------------------------------------------------- main
\* the switch (opts->action) of main
DispatchBranch(a) ==
  CASE a = AJOUT -> "execute"
    [] a \in {JOURS, MOIS, SEMAINES} -> "fetch"
    [] OTHER -> "default"

Label(a) ==
  CASE a = JOURS -> "Jours"
    [] a = MOIS -> "Mois"
    [] a = SEMAINES -> "Semaines"

Query(a) ==
  CASE a = JOURS -> "SELECT * FROM public.jours_v"
    [] a = MOIS -> "SELECT * FROM public.mois"
    [] a = SEMAINES -> "SELECT * FROM public.semaines"

InsertSql(heures) ==
  <<"INSERT INTO public.comptage (deb,fin) VALUES (">> \o heures \o <<")">>

NoActionMsg == "No action defined"
UsageMsg == "Try --help for more information."
QueryFailedMsg == "query failed"

\* ------------------------------------------------------------------- state
VARIABLES
  argv,         \* argv[1..argc-1]
  permute,      \* the platform's getopt skips non-option arguments
  pc,           \* position of main
  handler,      \* quit_properly is installed for SIGINT
  opts,         \* *opts
  conn,         \* the global PGconn *conn: NULL or "H", the handle
  link,         \* the connection itself: "none", "open", "closed"
  finishCalls,  \* PQfinish calls made on the handle
  connAttempts, \* calls of connectDatabase
  submitted,    \* statements handed to PQexec, in order
  lateQuery,    \* a statement was handed to PQexec on a closed connection
  res,          \* what PQexec returned, "none" before it returns
  branch,       \* branch taken by main's switch, "-" before it
  out,          \* lines on stdout
  log,          \* pg_log_error messages
  sigintAt,     \* position of main when SIGINT arrived, "none" if it did not
  exitPath,     \* how the process ended
  exitStatus    \* its exit status, -1 while running

vars ==
  << argv, permute, pc, handler, opts, conn, link, finishCalls, connAttempts,
     submitted, lateQuery, res, branch, out, log, sigintAt, exitPath, exitStatus >>

Init ==
  /\ argv \in ArgLists
  /\ permute \in BOOLEAN
  /\ pc = "main"
  /\ handler = FALSE
  /\ opts = Unallocated
  /\ conn = NULL
  /\ link = "none"
  /\ finishCalls = 0
  /\ connAttempts = 0
  /\ submitted = <<>>
  /\ lateQuery = FALSE
  /\ res = "none"
  /\ branch = "-"
  /\ out = <<>>
  /\ log = <<>>
  /\ sigintAt = "none"
  /\ exitPath = "running"
  /\ exitStatus = -1

\* exit(status), or the end of the process by another way
Exit(path, status) ==
  /\ pc' = "exited"
  /\ exitPath' = path
  /\ exitStatus' = status

\* pqsignal(SIGINT, quit_properly)
InstallHandler ==
  /\ pc = "main"
  /\ handler' = TRUE
  /\ pc' = "alloc"
  /\ UNCHANGED << argv, permute, opts, conn, link, finishCalls, connAttempts,
                  submitted, lateQuery, res, branch, out, log, sigintAt,
                  exitPath, exitStatus >>

\* opts = pg_malloc(sizeof(struct options))
AllocOpts ==
  /\ pc = "alloc"
  /\ \E ok \in BOOLEAN :
       IF ok
       THEN /\ opts' \in UninitOpts
            /\ pc' = "get_opts"
            /\ UNCHANGED << log, exitPath, exitStatus >>
       ELSE /\ log' = Append(log, "out of memory (pg_malloc)")
            /\ Exit("oom", EXIT_FAILURE)
            /\ UNCHANGED opts
  /\ UNCHANGED << argv, permute, handler, conn, link, finishCalls, connAttempts,
                  submitted, lateQuery, res, branch, out, sigintAt >>

\* get_opts(argc, argv)
GetOpts ==
  /\ pc = "get_opts"
  /\ LET r == GetOptsResult(argv, permute, opts) IN
       /\ opts' = r.opts
       /\ IF r.path = "parsed"
          THEN /\ pc' = "connect"
               /\ UNCHANGED << out, log, exitPath, exitStatus >>
          ELSE /\ Exit(r.path, r.status)
               /\ out' = IF r.path \in {"help", "version"} THEN Append(out, <<r.path>>) ELSE out
               /\ log' = IF r.path = "usage" THEN Append(log, UsageMsg) ELSE log
  /\ UNCHANGED << argv, permute, handler, conn, link, finishCalls, connAttempts,
                  submitted, lateQuery, res, branch, sigintAt >>

\* connectDatabase(&cparams, ...) up to its return: it ends the process when
\* the connection cannot be made
ConnectDatabase ==
  /\ pc = "connect"
  /\ connAttempts' = connAttempts + 1
  /\ \E ok \in BOOLEAN :
       IF ok
       THEN /\ link' = "open"
            /\ pc' = "assign"
            /\ UNCHANGED << exitPath, exitStatus >>
       ELSE /\ Exit("connfail", EXIT_FAILURE)
            /\ UNCHANGED link
  /\ UNCHANGED << argv, permute, handler, opts, conn, finishCalls, submitted,
                  lateQuery, res, branch, out, log, sigintAt >>

\* conn = <the value connectDatabase returned>
AssignConn ==
  /\ pc = "assign"
  /\ conn' = "H"
  /\ pc' = "dispatch"
  /\ UNCHANGED << argv, permute, handler, opts, link, finishCalls, connAttempts,
                  submitted, lateQuery, res, branch, out, log, sigintAt,
                  exitPath, exitStatus >>

\* PQexec(conn, sql): the statement goes out on the connection
PQexec(sql) ==
  /\ submitted' = Append(submitted, sql)
  /\ lateQuery' = (lateQuery \/ link # "open")

\* case AJOUT: snprintf(sql, ...); execute(sql), up to and including PQexec.
\* opts->heures holding whatever malloc left there makes the %s of snprintf
\* read through a wild pointer: the process dies there or goes on with junk.
DispatchExecute ==
  /\ pc = "dispatch"
  /\ DispatchBranch(opts.action) = "execute"
  /\ branch' = "execute"
  /\ \E wild \in (IF opts.heures = GARBAGE_STR THEN {"crash", "go"} ELSE {"go"}) :
       IF wild = "crash"
       THEN /\ Exit("crash", 128 + 11)
            /\ UNCHANGED << submitted, lateQuery, out >>
       ELSE IF opts.script # NULL
       THEN /\ out' = Append(out, InsertSql(opts.heures) \o <<";">>)
            /\ pc' = "finish"
            /\ UNCHANGED << submitted, lateQuery, exitPath, exitStatus >>
       ELSE /\ PQexec(InsertSql(opts.heures))
            /\ pc' = "execute"
            /\ UNCHANGED << out, exitPath, exitStatus >>
  /\ UNCHANGED << argv, permute, handler, opts, conn, link, finishCalls,
                  connAttempts, res, log, sigintAt >>

\* case JOURS / MOIS / SEMAINES: fetch_table(label, query), up to PQexec
DispatchFetch ==
  /\ pc = "dispatch"
  /\ DispatchBranch(opts.action) = "fetch"
  /\ branch' = "fetch"
  /\ IF opts.script # NULL
     THEN /\ out' = out \o << <<"\\echo ", Label(opts.action)>>,
                              <<Query(opts.action), ";">> >>
          /\ pc' = "finish"
          /\ UNCHANGED << submitted, lateQuery >>
     ELSE /\ PQexec(<<Query(opts.action)>>)
          /\ pc' = "fetch"
          /\ UNCHANGED out
  /\ UNCHANGED << argv, permute, handler, opts, conn, link, finishCalls,
                  connAttempts, res, log, sigintAt, exitPath, exitStatus >>

\* default: pg_log_error("No action defined")
DispatchDefault ==
  /\ pc = "dispatch"
  /\ DispatchBranch(opts.action) = "default"
  /\ branch' = "default"
  /\ log' = Append(log, NoActionMsg)
  /\ pc' = "finish"
  /\ UNCHANGED << argv, permute, handler, opts, conn, link, finishCalls,
                  connAttempts, submitted, lateQuery, res, out, sigintAt,
                  exitPath, exitStatus >>

\* PQfinish(conn) called with the handle
PQfinish ==
  /\ finishCalls' = finishCalls + 1
  /\ link' = "closed"

\* execute: PQexec returns, the result is checked; on failure the error is
\* logged and PQfinish(conn) is called, exit(EXIT_FAILURE) is the next step
ExecuteReturn ==
  /\ pc = "execute"
  /\ \E r \in Results :
       /\ res' = r
       /\ IF ExecuteFailed(r)
          THEN /\ log' = Append(log, QueryFailedMsg)
               /\ PQfinish
               /\ pc' = "failexit"
          ELSE /\ pc' = "finish"
               /\ UNCHANGED << log, finishCalls, link >>
  /\ UNCHANGED << argv, permute, handler, opts, conn, connAttempts, submitted,
                  lateQuery, branch, out, sigintAt, exitPath, exitStatus >>

\* fetch_table: the same, and printQuery on success
FetchReturn ==
  /\ pc = "fetch"
  /\ \E r \in Results :
       /\ res' = r
       /\ IF FetchFailed(r)
          THEN /\ log' = Append(log, QueryFailedMsg)
               /\ PQfinish
               /\ pc' = "failexit"
               /\ UNCHANGED out
          ELSE /\ out' = Append(out, <<"table ", Label(opts.action)>>)
               /\ pc' = "finish"
               /\ UNCHANGED << log, finishCalls, link >>
  /\ UNCHANGED << argv, permute, handler, opts, conn, connAttempts, submitted,
                  lateQuery, branch, sigintAt, exitPath, exitStatus >>

\* the exit(EXIT_FAILURE) that ends execute's and fetch_table's error branch
FailExit ==
  /\ pc = "failexit"
  /\ Exit(IF branch = "execute" THEN "execute_fail" ELSE "fetch_fail", EXIT_FAILURE)
  /\ UNCHANGED << argv, permute, handler, opts, conn, link, finishCalls,
                  connAttempts, submitted, lateQuery, res, branch, out, log,
                  sigintAt >>

\* main that returns without PQfinish(conn)
MainFinish_NoClose ==
  /\ pc = "finish"
  /\ pc' = "return"
  /\ UNCHANGED << argv, permute, handler, opts, conn, link, finishCalls,
                  connAttempts, submitted, lateQuery, res, branch, out, log,
                  sigintAt, exitPath, exitStatus >>

\* PQfinish(conn) at the end of main
MainFinish ==
  /\ pc = "finish"
  /\ PQfinish
  /\ pc' = "return"
  /\ UNCHANGED << argv, permute, handler, opts, conn, connAttempts, submitted,
                  lateQuery, res, branch, out, log, sigintAt, exitPath,
                  exitStatus >>

\* pg_free(opts); return 0
MainReturn ==
  /\ pc = "return"
  /\ Exit("return", EXIT_SUCCESS)
  /\ UNCHANGED << argv, permute, handler, opts, conn, link, finishCalls,
                  connAttempts, submitted, lateQuery, res, branch, out, log,
                  sigintAt >>

\* SIGINT with quit_properly installed: PQfinish(conn); exit(EXIT_FAILURE).
\* PQfinish(NULL) does nothing.  PQfinish on a handle that was already
\* finished frees it a second time: the process then dies or goes on.
QuitProperly ==
  /\ pc # "exited"
  /\ handler
  /\ sigintAt' = pc
  /\ IF conn = NULL
     THEN UNCHANGED << finishCalls, link >>
     ELSE PQfinish
  /\ \E twice \in (IF conn # NULL /\ link = "closed" THEN {"crash", "go"} ELSE {"go"}) :
       IF twice = "crash"
       THEN Exit("crash", 128 + 11)
       ELSE Exit("sigint", EXIT_FAILURE)
  /\ UNCHANGED << argv, permute, handler, opts, conn, connAttempts, submitted,
                  lateQuery, res, branch, out, log >>

\* SIGINT before pqsignal: the default disposition ends the process
SigintDefault ==
  /\ pc # "exited"
  /\ ~handler
  /\ sigintAt' = pc
  /\ Exit("killed", 128 + 2)
  /\ UNCHANGED << argv, permute, handler, opts, conn, link, finishCalls,
                  connAttempts, submitted, lateQuery, res, branch, out, log >>

Next ==
  \/ InstallHandler
  \/ AllocOpts
  \/ GetOpts
  \/ ConnectDatabase
  \/ AssignConn
  \/ DispatchExecute
  \/ DispatchFetch
  \/ DispatchDefault
  \/ ExecuteReturn
  \/ FetchReturn
  \/ FailExit
  \/ MainFinish
  \/ MainReturn
  \/ QuitProperly
  \/ SigintDefault

Spec == Init /\ [][Next]_vars

TypeOK ==
  /\ argv \in ArgLists
  /\ pc \in {"main", "alloc", "get_opts", "connect", "assign", "dispatch",
             "execute", "fetch", "failexit", "finish", "return", "exited"}
  /\ conn \in {NULL, "H"}
  /\ link \in {"none", "open", "closed"}
  /\ finishCalls \in 0..2
  /\ connAttempts \in 0..1
  /\ Len(submitted) <= 1

\* =================================================================== claims
\* vocabulary of the claims
HelpVersionFlags == {HELP_LONG, Flag("?"), VERSION_LONG, Flag("V")}
UnknownFlags == {Flag("x")}
ActionFlags == {Flag("a"), Flag("j"), Flag("m"), Flag("s")}
LongActionOpts == {JOUR_LONG, MOIS_LONG, SEMAINES_LONG}
ActionSet == {AJOUT, JOURS, MOIS, SEMAINES}
ErrorStatuses == {"PGRES_BAD_RESPONSE", "PGRES_FATAL_ERROR"}

Contains(args, toks) == \E i \in DOMAIN args : args[i] \in toks

\* positions of main at which the connection has been established
Established == {"assign", "dispatch", "execute", "fetch", "failexit", "finish", "return"}

\* positions of main at which, moreover, main holds the handle in conn
ConnAssigned == Established \ {"assign"}

\* get_opts has run, to its return or to one of its exits
GetOptsDone ==
  \/ pc \in {"connect"} \cup Established
  \/ exitPath \in {"help", "version", "usage"}
  \/ connAttempts > 0

\* the run was not cut short by a signal or by malloc failing
Undisturbed == sigintAt = "none" /\ exitPath # "oom"

\* an unknown flag stands where the option scan takes it for an option: it is
\* not the value of -a, not behind "--" and, when the scan stops at the first
\* non-option argument, not behind one
RECURSIVE ScanReachesUnknown(_, _, _)
ScanReachesUnknown(args, perm, i) ==
  IF i > Len(args) THEN FALSE
  ELSE IF args[i] \in UnknownFlags THEN TRUE
  ELSE IF args[i] = DASHDASH THEN FALSE
  ELSE IF args[i] = PAYLOAD THEN perm /\ ScanReachesUnknown(args, perm, i + 1)
  ELSE IF args[i] = Flag("a") THEN ScanReachesUnknown(args, perm, i + 2)
  ELSE ScanReachesUnknown(args, perm, i + 1)

FirstIsHelpOrVersion(args) == Len(args) >= 1 /\ args[1] \in HelpVersionFlags

WithoutV(args) == SelectSeq(args, LAMBDA t : t # Flag("v"))

ShortOf(t) ==
  CASE t = JOUR_LONG -> Flag("j")
    [] t = MOIS_LONG -> Flag("m")
    [] t = SEMAINES_LONG -> Flag("s")
    [] OTHER -> t

Shortened(args) == [i \in DOMAIN args |-> ShortOf(args[i])]

\* C1: when SIGINT arrives after the connection has been established (read
\* here in the claim's favour: after main holds the handle), the process
\* ends with the connection closed and with PQfinish having been called on
\* it exactly once.
C1_SigintClosesExactlyOnce ==
  (pc = "exited" /\ sigintAt \in ConnAssigned)
    => (link = "closed" /\ finishCalls = 1)

\* C2 (as stated): an argument list that contains an unrecognized flag makes
\* the process exit with a non-zero status without any connection attempt.
C2_UnknownFlagAnywhereFails ==
  Contains(argv, UnknownFlags)
    => (connAttempts = 0 /\ pc \notin Established \cup {"connect"}
        /\ (pc = "exited" => exitStatus # EXIT_SUCCESS))

\* C2 (amended): when the unrecognized flag stands where the option scan
\* takes it for an option, no connection is attempted, and the exit status
\* is non-zero unless the first argument is a help or version flag; with a
\* help or version flag first no connection is attempted either.
C2_ScannedUnknownFlagFails ==
  /\ (ScanReachesUnknown(argv, permute, 1) /\ ~FirstIsHelpOrVersion(argv))
       => (connAttempts = 0 /\ pc \notin Established \cup {"connect"}
           /\ (pc = "exited" => exitStatus # EXIT_SUCCESS))
  /\ (Contains(argv, UnknownFlags) /\ FirstIsHelpOrVersion(argv))
       => (connAttempts = 0 /\ pc \notin Established \cup {"connect"})

C2_Witness ==
  /\ pc = "exited"
  /\ exitPath = "usage"
  /\ exitStatus = EXIT_FAILURE
  /\ connAttempts = 0
  /\ Len(argv) = 2
  /\ argv[1] = Flag("j")
  /\ argv[2] \in UnknownFlags

\* C3 (as stated): with --help, -?, --version or -V at any position the
\* process exits with status 0 and never attempts a connection.
C3_HelpAnywhereExitsZero ==
  (Contains(argv, HelpVersionFlags) /\ Undisturbed)
    => (connAttempts = 0 /\ pc \notin Established \cup {"connect"}
        /\ (pc = "exited" => exitStatus = EXIT_SUCCESS))

\* C3 (amended): with --help, -?, --version or -V as the first argument,
\* whatever follows it, the process exits with status 0 and never attempts
\* a connection.
C3_HelpFirstExitsZero ==
  (FirstIsHelpOrVersion(argv) /\ Undisturbed)
    => (connAttempts = 0 /\ pc \in {"main", "alloc", "get_opts", "exited"}
        /\ (pc = "exited" => (exitStatus = EXIT_SUCCESS
                              /\ exitPath \in {"help", "version"})))

C3_Witness ==
  /\ pc = "exited"
  /\ exitStatus = EXIT_SUCCESS
  /\ connAttempts = 0
  /\ Len(argv) = 2
  /\ argv[1] = Flag("?")
  /\ argv[2] = Flag("j")

\* C4: after the submitted statement has failed (no result, or a result
\* whose status is an error), for a report as for an insert whose values
\* came from -a, the process ends with the connection closed and a
\* non-zero status.
C4_FailedQueryExitsNonZero ==
  (pc = "exited" /\ (branch = "execute" => opts.heures # GARBAGE_STR)
     /\ (res = NULL \/ res \in ErrorStatuses))
    => (exitStatus # EXIT_SUCCESS /\ link = "closed")

\* C5: script mode can be entered for a report action, and a report run in
\* script mode prints the \echo line and the SELECT with its semicolon,
\* submits nothing and opens no connection.
C5_ScriptModeReports ==
  /\ \E a \in ArgLists, p \in BOOLEAN, o \in UninitOpts :
       LET r == GetOptsResult(a, p, o) IN
         /\ r.path = "parsed"
         /\ r.opts.script # NULL
         /\ DispatchBranch(r.opts.action) = "fetch"
  /\ (branch = "fetch" /\ opts.script # NULL)
       => /\ out = << <<"\\echo ", Label(opts.action)>>, <<Query(opts.action), ";">> >>
          /\ submitted = <<>>
          /\ connAttempts = 0
          /\ link = "none"

\* C6: adding -v to an accepted invocation is not a usage error, sets the
\* verbosity flag and leaves the selected action as it is without -v.
C6_VerboseAccepted ==
  (GetOptsDone /\ Contains(argv, {Flag("v")})
     /\ GetOptsResult(WithoutV(argv), permute, opts).path = "parsed")
    => /\ exitPath # "usage"
       /\ opts.verbose = TRUE
       /\ opts.action = GetOptsResult(WithoutV(argv), permute, opts).opts.action

\* C7: --jour, --mois and --semaines are not usage errors and select the
\* action their short forms -j, -m and -s select.
C7_LongOptionsLikeShort ==
  (GetOptsDone /\ Contains(argv, LongActionOpts)
     /\ GetOptsResult(Shortened(argv), permute, opts).path = "parsed")
    => /\ exitPath # "usage"
       /\ opts.action = GetOptsResult(Shortened(argv), permute, opts).opts.action

\* C8: once main's switch has run with an action that is none of insert,
\* by-day, by-month, by-week, no statement has been or is ever submitted,
\* "No action defined" has been logged, and the process does not end
\* before the connection is closed.
C8_NoActionStillCloses ==
  (branch # "-" /\ opts.action \notin ActionSet)
    => /\ submitted = <<>>
       /\ \E i \in DOMAIN log : log[i] = NoActionMsg
       /\ (pc = "exited" => (link = "closed" /\ finishCalls >= 1))

C8_Witness ==
  /\ pc = "exited"
  /\ exitPath = "return"
  /\ branch = "default"
  /\ opts.action \notin ActionSet
  /\ link = "closed"
  /\ log = <<NoActionMsg>>

\* C9: the connection is opened only after get_opts has returned; when the
\* process ends by main's return, by a query failure or by SIGINT after the
\* connection was opened, the connection is closed; no statement is
\* submitted on a closed connection.
C9_OpenedAfterParseClosedBeforeExit ==
  /\ (link # "none" => pc \in Established \cup {"exited"})
  /\ (pc = "exited" /\ link # "none"
        /\ exitPath \in {"return", "execute_fail", "fetch_fail", "sigint"})
       => link = "closed"
  /\ ~lateQuery

\* C10: without -a, -j, -m, -s the action at main's switch is NONE and the
\* switch takes its default branch.
C10_NoFlagMeansNoAction ==
  ~Contains(argv, ActionFlags)
    => /\ (pc = "dispatch" => opts.action = NONE)
       /\ (branch # "-" => branch = "default")

====
